---- MODULE Spec2Model ----
(***************************************************************************)
(* Model of the app-store release action (src/src/index.ts).               *)
(*                                                                         *)
(* run() is one async function on Node's single-threaded event loop.  An   *)
(* action of this model is one event-loop turn: the code that runs from a  *)
(* resumption (the start of run(), or the arrival of a response) up to the *)
(* next await on a network call, including the promise reactions           *)
(* (microtasks) that the turn triggers.  Text is a sequence of tokens, a   *)
(* file name is a sequence of characters.                                  *)
(***************************************************************************)
EXTENDS Integers, Sequences, FiniteSets, Bags, TLC

\* ------------------------------------------------------------------ bounds
MaxAssets == 2      \* longest directory listing explored

\* ------------------------------------------------------------- text helpers
Chars(a, b, c, d, e) == <<a, b, c, d, e>>

\* files the assets directory may hold
FileNames ==
  { Chars("a", ".", "j", "a", "r"),
    Chars("b", ".", "j", "a", "r"),
    Chars("t", ".", "z", "i", "p"),
    Chars("u", ".", "z", "i", "p"),
    Chars("n", "o", "j", "a", "r") }

DotJar == <<".", "j", "a", "r">>
DotZip == <<".", "z", "i", "p">>

\* a test for the extension without its dot
EndsWith_NoDot(s, suffix) ==
  /\ Len(s) >= Len(suffix) - 1
  /\ SubSeq(s, Len(s) - Len(suffix) + 2, Len(s)) = Tail(suffix)

\* String.prototype.endsWith
EndsWith(s, suffix) ==
  /\ Len(s) >= Len(suffix)
  /\ SubSeq(s, Len(s) - Len(suffix) + 1, Len(s)) = suffix

\* JavaScript's undefined / null / "" where a sequence is expected
None == <<>>

\* every sequence without repetition over S, of length 0..n
RECURSIVE DistinctSeqs(_, _)
DistinctSeqs(S, n) ==
  IF n = 0 THEN { <<>> }
  ELSE LET shorter == DistinctSeqs(S, n - 1)
       IN  shorter \cup
           { Append(q, x) : <<q, x>> \in
               { p \in shorter \X S :
                   /\ Len(p[1]) = n - 1
                   /\ \A i \in 1..Len(p[1]) : p[1][i] # p[2] } }

\* is tokens `part` a contiguous part of tokens `whole`
Contains(whole, part) ==
  \E i \in 0..(Len(whole) - Len(part)) :
     SubSeq(whole, i + 1, i + Len(part)) = part

\* --------------------------------------------------------------- the inputs
AssetsDir == "build/libs"     \* the assets-dir input
ReleaseIds == { "", "42" }    \* the release-id input: absent or present

\* ------------------------------------------------ archives and their manifest
YamlNames == { "plugin.yaml", "theme.yaml" }

Undefined == <<"undefined">>
Str(s) == <<"string", s>>
IsString(v) == v[1] = "string"

FieldValues(s) == { Undefined, Str(s) }

\* what YAML.parse makes of the entry's text
Docs ==
  { [kind |-> k, requires |-> Undefined, version |-> Undefined] :
      k \in { "malformed", "null", "scalar", "mapNoSpec", "specNull",
              "specScalar" } }
  \cup
  { [kind |-> "specMap", requires |-> r, version |-> v] :
      r \in FieldValues("2.0.0"), v \in FieldValues("1.2.3") }

NullDoc == [kind |-> "null", requires |-> Undefined, version |-> Undefined]

\* what the file at targetFile turns out to be: not an archive, or an
\* archive with no manifest entry or with one of the two
Archives ==
  { [readable |-> FALSE, entries |-> {}, doc |-> NullDoc] }
  \cup
  { [readable |-> TRUE, entries |-> {}, doc |-> NullDoc] }
  \cup
  { [readable |-> TRUE, entries |-> {y}, doc |-> d] :
      y \in YamlNames, d \in Docs }

\* -------------------------------------------------------- readAppManifest
\* a search that keeps the last match instead of the first
RECURSIVE FindEndsWith_Last(_, _)
FindEndsWith_Last(assets, suffix) ==
  IF assets = <<>> THEN None
  ELSE IF EndsWith(assets[Len(assets)], suffix) THEN assets[Len(assets)]
  ELSE FindEndsWith_Last(SubSeq(assets, 1, Len(assets) - 1), suffix)

\* assets.find((file) => file.endsWith(suffix)): the first match, or undefined
RECURSIVE FindEndsWith(_, _)
FindEndsWith(assets, suffix) ==
  IF assets = <<>> THEN None
  ELSE IF EndsWith(Head(assets), suffix) THEN Head(assets)
  ELSE FindEndsWith(Tail(assets), suffix)

JarFile(assets) == FindEndsWith(assets, DotJar)
ZipFile(assets) == FindEndsWith(assets, DotZip)

\* JavaScript truthiness of a file name or undefined
Truthy(s) == s # None

\* a selection that rejects a directory holding both kinds of package
SelectTarget_RejectBoth(assets) ==
  IF Truthy(JarFile(assets)) /\ Truthy(ZipFile(assets))
  THEN [found |-> FALSE, file |-> None, isPlugin |-> FALSE]
  ELSE IF Truthy(JarFile(assets))
  THEN [found |-> TRUE, file |-> JarFile(assets), isPlugin |-> TRUE]
  ELSE IF Truthy(ZipFile(assets))
  THEN [found |-> TRUE, file |-> ZipFile(assets), isPlugin |-> FALSE]
  ELSE [found |-> FALSE, file |-> None, isPlugin |-> FALSE]

\* the if / else if / else that picks targetFile and isPlugin
SelectTarget(assets) ==
  IF Truthy(JarFile(assets))
  THEN [found |-> TRUE, file |-> JarFile(assets), isPlugin |-> TRUE]
  ELSE IF Truthy(ZipFile(assets))
  THEN [found |-> TRUE, file |-> ZipFile(assets), isPlugin |-> FALSE]
  ELSE [found |-> FALSE, file |-> None, isPlugin |-> FALSE]

\* path.join(assetsDir, file)
PathJoin(dir, file) == <<dir, "/">> \o file

YamlFileName(isPlugin) == IF isPlugin THEN "plugin.yaml" ELSE "theme.yaml"
PackageWord(isPlugin) == IF isPlugin THEN "Plugin" ELSE "Theme"

\* error.toString() of an error of class `name`
ErrorToString(name, message) == <<name, ": ">> \o message

\* the message part of an error.toString()
ErrorMessage(asString) == SubSeq(asString, 3, Len(asString))

ErrNoPackage == <<"No jar or zip file found in assets directory">>
ErrEntryMissing(isPlugin) ==
  <<PackageWord(isPlugin), " package does not contain ",
    YamlFileName(isPlugin), " file">>
ErrZipFormat == <<"ADM-ZIP: Invalid or unsupported zip format">>
ErrYamlSyntax == <<"Implicit map keys need to be followed by map values">>
ErrReadOfNull(prop) == <<"Cannot read properties of null (reading '", prop, "')">>
ErrReadOfUndefined(prop) ==
  <<"Cannot read properties of undefined (reading '", prop, "')">>

NoManifest == [requires |-> <<"unset">>, version |-> <<"unset">>]

\* the body of the try block: what is thrown (as error.toString()), or None
TryBlockThrows(arch, isPlugin) ==
  IF ~arch.readable THEN ErrorToString("Error", ErrZipFormat)
  ELSE IF YamlFileName(isPlugin) \notin arch.entries
  THEN ErrorToString("Error", ErrEntryMissing(isPlugin))
  ELSE IF arch.doc.kind = "malformed"
  THEN ErrorToString("YAMLParseError", ErrYamlSyntax)
  ELSE IF arch.doc.kind = "null"
  THEN ErrorToString("TypeError", ErrReadOfNull("spec"))
  ELSE IF arch.doc.kind \in { "scalar", "mapNoSpec" }
  THEN ErrorToString("TypeError", ErrReadOfUndefined("requires"))
  ELSE IF arch.doc.kind = "specNull"
  THEN ErrorToString("TypeError", ErrReadOfNull("requires"))
  ELSE None

\* { requires: manifest.spec.requires, version: manifest.spec.version }
ManifestOf(doc) ==
  IF doc.kind = "specMap"
  THEN [requires |-> doc.requires, version |-> doc.version]
  ELSE [requires |-> Undefined, version |-> Undefined]

ErrManifestWrap(thrown) == <<"Failed to read manifest file: ">> \o thrown

\* a reader that returns undefined, as its return type allows, when the
\* try block throws
ReadAppManifest_ReturnsUndefined(assets, arch) ==
  LET t == SelectTarget(assets)
      thrown == TryBlockThrows(arch, t.isPlugin)
  IN  IF ~t.found
      THEN [ok |-> FALSE, error |-> ErrNoPackage, opened |-> FALSE,
            thrown |-> <<ErrNoPackage>>,
            targetFile |-> None, yamlFileName |-> "",
            manifest |-> NoManifest]
      ELSE IF thrown # None
      THEN [ok |-> TRUE, error |-> None, opened |-> TRUE, thrown |-> <<>>,
            targetFile |-> PathJoin(AssetsDir, t.file),
            yamlFileName |-> IF arch.readable THEN YamlFileName(t.isPlugin)
                             ELSE "",
            manifest |-> NoManifest]
      ELSE [ok |-> TRUE, error |-> None, opened |-> TRUE, thrown |-> <<>>,
            targetFile |-> PathJoin(AssetsDir, t.file),
            yamlFileName |-> YamlFileName(t.isPlugin),
            manifest |-> ManifestOf(arch.doc)]

\* readAppManifest(assets), the selected file being the archive arch
ReadAppManifest(assets, arch) ==
  LET t == SelectTarget(assets)
      thrown == TryBlockThrows(arch, t.isPlugin)
  IN  IF ~t.found
      THEN [ok |-> FALSE, error |-> ErrNoPackage, opened |-> FALSE,
            thrown |-> <<ErrNoPackage>>,
            targetFile |-> None, yamlFileName |-> "",
            manifest |-> NoManifest]
      ELSE IF thrown # None
      THEN [ok |-> FALSE, error |-> ErrManifestWrap(thrown), opened |-> TRUE,
            thrown |-> <<ErrorMessage(thrown), ErrManifestWrap(thrown)>>,
            targetFile |-> PathJoin(AssetsDir, t.file),
            yamlFileName |-> IF arch.readable THEN YamlFileName(t.isPlugin)
                             ELSE "",
            manifest |-> NoManifest]
      ELSE [ok |-> TRUE, error |-> None, opened |-> TRUE, thrown |-> <<>>,
            targetFile |-> PathJoin(AssetsDir, t.file),
            yamlFileName |-> YamlFileName(t.isPlugin),
            manifest |-> ManifestOf(arch.doc)]

\* ---------------------------------------------------------- getReleaseNote
Null == <<"null">>
Text(tokens) == <<"string", tokens>>

\* `${releaseInfo.data.body || ""}`
BodyOrEmpty(body) == IF body = Null THEN <<>> ELSE body[2]

\* a note that gets its attribution line only inside the non-empty branch
Markdown_AttributionWithBody(repoData, releaseData) ==
  LET body == BodyOrEmpty(releaseData.body)
  IN  IF body = <<>> THEN body
      ELSE IF ~repoData.private
      THEN body \o <<"\n\n---">>
                \o <<"\n\n*Generated from [", releaseData.tag_name, "](",
                     releaseData.html_url, ")*">>
      ELSE body \o <<"\n\n---">>

Markdown(repoData, releaseData) ==
  LET body == BodyOrEmpty(releaseData.body)
      withRule == IF body # <<>> THEN body \o <<"\n\n---">> ELSE body
  IN  IF ~repoData.private
      THEN withRule \o <<"\n\n*Generated from [", releaseData.tag_name, "](",
                         releaseData.html_url, ")*">>
      ELSE withRule

\* the markdown rendering service of the hosting platform
RenderHtml(text) == <<"<div>">> \o text \o <<"</div>">>

RepoInfos == { [private |-> p] : p \in BOOLEAN }
ReleaseInfos ==
  { [body |-> Null, tag_name |-> "v0.9", html_url |-> "https://y",
     prerelease |-> TRUE, name |-> "Release 0.9"],
    [body |-> Text(<<>>), tag_name |-> "v1.0", html_url |-> "https://x",
     prerelease |-> FALSE, name |-> "Release 1.0"],
    [body |-> Text(<<"Fixed bugs">>), tag_name |-> "v1.0",
     html_url |-> "https://x", prerelease |-> FALSE,
     name |-> "Release 1.0"] }
NoRepoInfo == [unset |-> TRUE]
NoReleaseInfo == [unset |-> TRUE]
NoNote == [html |-> <<"unset">>, markdown |-> <<"unset">>]

\* ------------------------------------------------------------- remote errors
\* messages of the errors the HTTP clients reject with
HttpErrors ==
  { <<"Request failed with status code 500">>, <<"Network Error">> }

ErrNoReleaseId == <<"Release ID not found">>
ErrNoManifest == <<"App manifest not found">>
ErrNoDir == <<"Assets directory does not exist: ", AssetsDir>>
ErrEmptyDir == <<"Assets directory is empty: ", AssetsDir>>
ErrAssetMissing(asset) ==
  <<"Asset file does not exist: ", AssetsDir, "/">> \o asset

\* names the store generates for a release (generateName "app-release-")
ReleaseNames == { <<"app-release-", "x7k2">> }
NoRelease == [name |-> <<"unset">>]

\* the texts of the two terminal reports (each begins with a status mark
\* outside ASCII, left out of the tokens here)
CompletedText == <<"[Completed]: App release created successfully">>
FailedText(message) == <<"[Failed]: ">> \o message

\* ------------------------------------------------------------------- state
VARIABLES
  releaseId,      \* the release-id input
  dirExists,      \* does the assets directory exist
  dirFiles,       \* the files now in the assets directory, in readdir order
  pc,             \* where run() is suspended, or how it ended
  calls,          \* every operation issued so far, in order
  repoInfo,       \* run(): repoInfo.data
  releaseInfo,    \* run(): releaseInfo.data
  note,           \* run(): { html, markdown }
  assets,         \* run(): assets
  manifestRead,   \* what readAppManifest looked at: target, entry, archive
  appManifest,    \* run(): appManifest
  appRelease,     \* run(): appRelease.metadata
  uploads,        \* uploadPromises: per asset index, the promise's state
  storeReleases,  \* the store: number of release records created
  storeAssets,    \* the store: bag of [file, releaseName] received
  reports,        \* the terminal reports made (completion notice, setFailed)
  errors          \* messages of the errors thrown or rejected, in order

vars ==
  <<releaseId, dirExists, dirFiles, pc, calls, repoInfo, releaseInfo, note,
    assets, manifestRead, appManifest, appRelease, uploads, storeReleases,
    storeAssets, reports, errors>>

inputVars == <<releaseId, dirExists>>

Call(op, arg, tag) == [op |-> op, arg |-> arg, tag |-> tag]

NothingRead ==
  [opened |-> FALSE, targetFile |-> None, yamlFileName |-> "",
   archive |-> [readable |-> FALSE, entries |-> {}, doc |-> NullDoc]]

Init ==
  /\ releaseId \in ReleaseIds
  /\ dirExists \in BOOLEAN
  /\ dirFiles \in DistinctSeqs(FileNames, MaxAssets)
  /\ ~dirExists => dirFiles = <<>>
  /\ pc = "start"
  /\ calls = <<>>
  /\ repoInfo = NoRepoInfo
  /\ releaseInfo = NoReleaseInfo
  /\ note = NoNote
  /\ assets = <<>>
  /\ manifestRead = NothingRead
  /\ appManifest = NoManifest
  /\ appRelease = NoRelease
  /\ uploads = <<>>
  /\ storeReleases = 0
  /\ storeAssets = EmptyBag
  /\ reports = <<>>
  /\ errors = <<>>

\* run() rejects with an error of this message: .catch reports setFailed
Rejected(message, thrownNow) ==
  /\ pc' = "failed"
  /\ errors' = errors \o thrownNow
  /\ reports' = Append(reports, [kind |-> "setFailed",
                                 text |-> FailedText(message)])

\* run() resolves: .then reports the completion notice
Resolved ==
  /\ pc' = "done"
  /\ reports' = Append(reports, [kind |-> "info", text |-> CompletedText])

\* ---------------------------------------------------- run(): first turn
\* a first turn that fires both fetches at once instead of awaiting in turn
Start_Parallel ==
  /\ pc = "start"
  /\ IF releaseId = ""
     THEN /\ Rejected(ErrNoReleaseId, <<ErrNoReleaseId>>)
          /\ calls' = Append(calls, Call("checkReleaseId", None, None))
     ELSE /\ pc' = "awaitRepo"
          /\ calls' = calls \o <<Call("checkReleaseId", None, None),
                                 Call("getRepo", None, None),
                                 Call("getRelease", None, None)>>
          /\ UNCHANGED <<errors, reports>>
  /\ UNCHANGED <<inputVars, dirFiles, repoInfo, releaseInfo, note, assets,
                 manifestRead, appManifest, appRelease, uploads,
                 storeReleases, storeAssets>>

\* a first turn without the release-id check
Start_NoCheck ==
  /\ pc = "start"
  /\ pc' = "awaitRepo"
  /\ calls' = calls \o <<Call("checkReleaseId", None, None),
                         Call("getRepo", None, None)>>
  /\ UNCHANGED <<errors, reports>>
  /\ UNCHANGED <<inputVars, dirFiles, repoInfo, releaseInfo, note, assets,
                 manifestRead, appManifest, appRelease, uploads,
                 storeReleases, storeAssets>>

\* lines 21-30: the release-id check, then the repository request
Start ==
  /\ pc = "start"
  /\ IF releaseId = ""
     THEN /\ Rejected(ErrNoReleaseId, <<ErrNoReleaseId>>)
          /\ calls' = Append(calls, Call("checkReleaseId", None, None))
     ELSE /\ pc' = "awaitRepo"
          /\ calls' = calls \o <<Call("checkReleaseId", None, None),
                                 Call("getRepo", None, None)>>
          /\ UNCHANGED <<errors, reports>>
  /\ UNCHANGED <<inputVars, dirFiles, repoInfo, releaseInfo, note, assets,
                 manifestRead, appManifest, appRelease, uploads,
                 storeReleases, storeAssets>>

\* a repository fetch that is tried a second time after a first failure
RepoResponse_RetryOnce ==
  /\ pc = "awaitRepo"
  /\ \/ \E e \in HttpErrors :
          IF Len(errors) = 0
          THEN /\ errors' = Append(errors, e)
               /\ calls' = Append(calls, Call("getRepo", None, None))
               /\ UNCHANGED <<pc, reports, repoInfo>>
          ELSE /\ Rejected(e, <<e>>)
               /\ UNCHANGED <<repoInfo, calls>>
     \/ \E data \in RepoInfos :
          /\ repoInfo' = data
          /\ pc' = "awaitRelease"
          /\ calls' = Append(calls, Call("getRelease", None, None))
          /\ UNCHANGED <<errors, reports>>
  /\ UNCHANGED <<inputVars, dirFiles, releaseInfo, note, assets,
                 manifestRead, appManifest, appRelease, uploads,
                 storeReleases, storeAssets>>

\* octokit.rest.repos.get settles; on success getGitHubReleaseInfo starts
RepoResponse ==
  /\ pc = "awaitRepo"
  /\ \/ \E e \in HttpErrors :
          /\ Rejected(e, <<e>>)
          /\ UNCHANGED <<repoInfo, calls>>
     \/ \E data \in RepoInfos :
          /\ repoInfo' = data
          /\ pc' = "awaitRelease"
          /\ calls' = Append(calls, Call("getRelease", None, None))
          /\ UNCHANGED <<errors, reports>>
  /\ UNCHANGED <<inputVars, dirFiles, releaseInfo, note, assets,
                 manifestRead, appManifest, appRelease, uploads,
                 storeReleases, storeAssets>>

\* octokit.rest.repos.getRelease settles; on success getReleaseNote builds
\* the markdown and asks for its rendering
ReleaseResponse ==
  /\ pc = "awaitRelease"
  /\ \/ \E e \in HttpErrors :
          /\ Rejected(e, <<e>>)
          /\ UNCHANGED <<releaseInfo, calls>>
     \/ \E data \in ReleaseInfos :
          /\ releaseInfo' = data
          /\ pc' = "awaitRender"
          /\ calls' = Append(calls, Call("renderMarkdown",
                                         Markdown(repoInfo, data), None))
          /\ UNCHANGED <<errors, reports>>
  /\ UNCHANGED <<inputVars, dirFiles, repoInfo, note, assets,
                 manifestRead, appManifest, appRelease, uploads,
                 storeReleases, storeAssets>>

\* -------------------------------------------------------------- getAssets
\* a listing without the emptiness check
GetAssets_NoEmptyCheck ==
  IF ~dirExists THEN [ok |-> FALSE, error |-> ErrNoDir, assets |-> <<>>]
  ELSE [ok |-> TRUE, error |-> None, assets |-> dirFiles]

GetAssets ==
  IF ~dirExists THEN [ok |-> FALSE, error |-> ErrNoDir, assets |-> <<>>]
  ELSE IF Len(dirFiles) = 0
  THEN [ok |-> FALSE, error |-> ErrEmptyDir, assets |-> <<>>]
  ELSE [ok |-> TRUE, error |-> None, assets |-> dirFiles]

\* ------------------------------------------------------- createAppRelease
\* if (!appManifest)
ManifestAbsent(manifest) == manifest = NoManifest

\* a request body with the two note texts in each other's place
CreateRequest_NotesSwapped(release, html, markdown, manifest) ==
  [displayName |-> release.name,
   draft |-> FALSE,
   preRelease |-> release.prerelease,
   requires |-> manifest.requires,
   version |-> manifest.version,
   html |-> markdown,
   rawType |-> "MARKDOWN",
   raw |-> html,
   makeLatest |-> TRUE]

\* the body of the create-release POST
CreateRequest(release, html, markdown, manifest) ==
  [displayName |-> release.name,
   draft |-> FALSE,
   preRelease |-> release.prerelease,
   requires |-> manifest.requires,
   version |-> manifest.version,
   html |-> html,
   rawType |-> "MARKDOWN",
   raw |-> markdown,
   makeLatest |-> TRUE]

\* the operations readAppManifest performs, given its result
ManifestCalls(r) ==
  <<Call("readAppManifest", None, None)>>
  \o (IF r.opened THEN <<Call("openArchive", r.targetFile, None)>>
      ELSE <<>>)
  \o (IF r.yamlFileName # "" THEN <<Call("getEntry", r.yamlFileName, None)>>
      ELSE <<>>)

\* markdown.render settles; on success the turn runs getAssets,
\* readAppManifest and createAppRelease up to its POST (lines 33-44)
RenderResponse ==
  /\ pc = "awaitRender"
  /\ \/ \E e \in HttpErrors :
          /\ Rejected(e, <<e>>)
          /\ UNCHANGED <<note, assets, manifestRead, appManifest, calls>>
     \/ LET md == Markdown(repoInfo, releaseInfo)
            ga == GetAssets
        IN  /\ note' = [html |-> RenderHtml(md), markdown |-> md]
            /\ IF ~ga.ok
               THEN /\ Rejected(ga.error, <<ga.error>>)
                    /\ calls' = Append(calls, Call("readdir", None, None))
                    /\ UNCHANGED <<assets, manifestRead, appManifest>>
               ELSE \E arch \in Archives :
                    LET r == ReadAppManifest(ga.assets, arch)
                        listed == Append(calls, Call("readdir", None, None))
                                  \o ManifestCalls(r)
                    IN  /\ assets' = ga.assets
                        /\ manifestRead' =
                             IF r.opened
                             THEN [opened |-> TRUE,
                                   targetFile |-> r.targetFile,
                                   yamlFileName |-> r.yamlFileName,
                                   archive |-> arch]
                             ELSE NothingRead
                        /\ IF ~r.ok
                           THEN /\ Rejected(r.error, r.thrown)
                                /\ calls' = listed
                                /\ UNCHANGED appManifest
                           ELSE /\ appManifest' = r.manifest
                                /\ IF ManifestAbsent(r.manifest)
                                   THEN /\ Rejected(ErrNoManifest,
                                                    <<ErrNoManifest>>)
                                        /\ calls' = listed
                                   ELSE /\ pc' = "awaitCreate"
                                        /\ calls' = Append(listed,
                                             Call("createRelease",
                                                  CreateRequest(releaseInfo,
                                                    RenderHtml(md), md,
                                                    r.manifest),
                                                  None))
                                        /\ UNCHANGED <<errors, reports>>
  /\ UNCHANGED <<inputVars, dirFiles, repoInfo, releaseInfo, appRelease,
                 uploads, storeReleases, storeAssets>>

\* a file disappears from the assets directory between the listing and the
\* upload stage (the only window in which the program can tell)
FsRemove ==
  /\ pc = "awaitCreate"
  /\ \E i \in 1..Len(dirFiles) :
        dirFiles' = SubSeq(dirFiles, 1, i - 1)
                    \o SubSeq(dirFiles, i + 1, Len(dirFiles))
  /\ UNCHANGED <<inputVars, pc, calls, repoInfo, releaseInfo, note, assets,
                 manifestRead, appManifest, appRelease, uploads,
                 storeReleases, storeAssets, reports, errors>>

\* ------------------------------------------------------------ uploadAssets
\* fs.existsSync(assetPath)
ExistsSync(asset) == \E i \in 1..Len(dirFiles) : dirFiles[i] = asset

NoError == <<>>

\* the multipart form of one upload POST
UploadForm(releaseName, asset) == [releaseName |-> releaseName, file |-> asset]

\* a map that sends the name field of the request body (metadata.name: "")
\* instead of the created release's name
StartUploads_BlankName(releaseName, list) ==
  [i \in 1..Len(list) |->
     IF ExistsSync(list[i])
     THEN [state |-> "inflight", error |-> NoError, late |-> FALSE,
           form |-> UploadForm(None, list[i])]
     ELSE [state |-> "rejected", error |-> ErrAssetMissing(list[i]),
           late |-> FALSE, form |-> UploadForm(None, list[i])]]

\* a map that stops at the first vanished asset
StartUploads_StopAtMissing(releaseName, list) ==
  LET missing == { i \in 1..Len(list) : ~ExistsSync(list[i]) }
      n == IF missing = {} THEN Len(list)
           ELSE CHOOSE i \in missing : \A j \in missing : i <= j
  IN  [i \in 1..n |->
         IF ExistsSync(list[i])
         THEN [state |-> "inflight", error |-> NoError, late |-> FALSE,
               form |-> UploadForm(releaseName, list[i])]
         ELSE [state |-> "rejected", error |-> ErrAssetMissing(list[i]),
               late |-> FALSE, form |-> UploadForm(releaseName, list[i])]]

\* assets.map(async (asset, index) => ...) up to each callback's first await:
\* the promise of a vanished asset is already rejected, the others have
\* issued their POST
StartUploads(releaseName, list) ==
  [i \in 1..Len(list) |->
     IF ExistsSync(list[i])
     THEN [state |-> "inflight", error |-> NoError, late |-> FALSE,
           form |-> UploadForm(releaseName, list[i])]
     ELSE [state |-> "rejected", error |-> ErrAssetMissing(list[i]),
           late |-> FALSE, form |-> UploadForm(releaseName, list[i])]]

\* the POSTs issued by the map, in listing order
RECURSIVE UploadCalls(_)
UploadCalls(ups) ==
  IF ups = <<>> THEN <<>>
  ELSE (IF ups[1].state = "inflight"
        THEN <<Call("upload", ups[1].form.file, ups[1].form.releaseName)>>
        ELSE <<>>)
       \o UploadCalls(Tail(ups))

\* the errors of the promises already rejected, in index order
RECURSIVE RejectedErrors(_)
RejectedErrors(ups) ==
  IF ups = <<>> THEN <<>>
  ELSE (IF ups[1].state = "rejected" THEN <<ups[1].error>> ELSE <<>>)
       \o RejectedErrors(Tail(ups))

\* an aggregate that waits for every promise and never rejects
\* (Promise.allSettled)
Aggregate_AllSettled(ups) ==
  IF \A i \in DOMAIN ups : ups[i].state # "inflight" THEN "fulfilled"
  ELSE "pending"

\* an aggregate that fulfils with the first fulfilled promise (Promise.any)
Aggregate_Any(ups) ==
  IF \E i \in DOMAIN ups : ups[i].state = "fulfilled" THEN "fulfilled"
  ELSE IF \A i \in DOMAIN ups : ups[i].state = "rejected" THEN "rejected"
  ELSE "pending"

\* Promise.all(uploadPromises): rejected as soon as one promise is,
\* fulfilled when every promise is
Aggregate(ups) ==
  IF \E i \in DOMAIN ups : ups[i].state = "rejected" THEN "rejected"
  ELSE IF \A i \in DOMAIN ups : ups[i].state = "fulfilled" THEN "fulfilled"
  ELSE "pending"

\* run() after the aggregate has settled (line 250, then lines 49-55)
Settle(ups, reason, thrownNow) ==
  IF Aggregate(ups) = "rejected" THEN Rejected(reason, thrownNow)
  ELSE IF Aggregate(ups) = "fulfilled"
  THEN Resolved /\ errors' = errors \o thrownNow
  ELSE /\ errors' = errors \o thrownNow
       /\ UNCHANGED <<pc, reports>>

\* the create-release POST settles; on success uploadAssets starts every
\* upload and awaits Promise.all (lines 39-46, 221-250)
CreateResponse ==
  /\ pc = "awaitCreate"
  /\ \/ \E e \in HttpErrors :
          /\ Rejected(e, <<e>>)
          /\ UNCHANGED <<appRelease, uploads, storeReleases, calls>>
     \/ \E n \in ReleaseNames :
        LET ups == StartUploads(n, assets)
            thrown == RejectedErrors(ups)
        IN  /\ appRelease' = [name |-> n]
            /\ storeReleases' = storeReleases + 1
            /\ uploads' = ups
            /\ calls' = calls \o UploadCalls(ups)
            /\ IF Aggregate(ups) = "pending"
               THEN /\ pc' = "awaitUploads"
                    /\ errors' = errors \o thrown
                    /\ UNCHANGED reports
               ELSE Settle(ups, IF thrown = <<>> THEN NoError
                                ELSE Head(thrown), thrown)
  /\ UNCHANGED <<inputVars, dirFiles, repoInfo, releaseInfo, note, assets,
                 manifestRead, appManifest, storeAssets>>

\* a rejection that aborts the uploads still in flight
Siblings_Cancel(ups, i) ==
  [j \in DOMAIN ups |->
     IF j # i /\ ups[j].state = "inflight"
     THEN [ups[j] EXCEPT !.state = "aborted"]
     ELSE ups[j]]

\* what the rejection of upload i does to the other uploads: nothing
Siblings(ups, i) == ups

\* a failure handler that deletes what the run had uploaded
StoreAfterRejection_Rollback(stored) == EmptyBag

\* what the store holds after run().catch has handled a rejection: the
\* handler only reports (lines 53-55), it sends nothing
StoreAfterRejection(stored) == stored

\* one upload POST settles, whatever has become of run() meanwhile
UploadResponse ==
  /\ pc \in { "awaitUploads", "failed", "done" }
  /\ \E i \in DOMAIN uploads :
     /\ uploads[i].state = "inflight"
     /\ \/ LET ups == [uploads EXCEPT ![i].state = "fulfilled",
                                      ![i].late = (pc # "awaitUploads")]
           IN  /\ uploads' = ups
               /\ storeAssets' = storeAssets (+) SetToBag({ uploads[i].form })
               /\ IF pc = "awaitUploads"
                  THEN Settle(ups, NoError, <<>>)
                  ELSE UNCHANGED <<pc, reports, errors>>
        \/ \E e \in HttpErrors :
           LET ups == [uploads EXCEPT ![i].state = "rejected",
                                      ![i].error = e,
                                      ![i].late = (pc # "awaitUploads")]
           IN  /\ uploads' = Siblings(ups, i)
               /\ storeAssets' = StoreAfterRejection(storeAssets)
               /\ IF pc = "awaitUploads"
                  THEN Settle(ups, e, <<e>>)
                  ELSE /\ errors' = Append(errors, e)
                       /\ UNCHANGED <<pc, reports>>
  /\ UNCHANGED <<inputVars, dirFiles, calls, repoInfo, releaseInfo, note,
                 assets, manifestRead, appManifest, appRelease,
                 storeReleases>>

Next ==
  \/ Start
  \/ RepoResponse
  \/ ReleaseResponse
  \/ RenderResponse
  \/ FsRemove
  \/ CreateResponse
  \/ UploadResponse

Spec == Init /\ [][Next]_vars

\* every request the run is waiting for is eventually answered
Responses ==
  Start \/ RepoResponse \/ ReleaseResponse \/ RenderResponse
  \/ CreateResponse \/ UploadResponse

FairSpec == Spec /\ WF_vars(Responses)

TypeOK ==
  /\ pc \in { "start", "awaitRepo", "awaitRelease", "awaitRender",
              "awaitCreate", "awaitUploads", "done", "failed" }
  /\ Len(reports) <= 1

\* ================================================================ claims

\* the stage of the pipeline an operation belongs to
Stage(op) ==
  CASE op = "checkReleaseId" -> 1
    [] op = "getRepo" -> 2
    [] op = "getRelease" -> 3
    [] op = "renderMarkdown" -> 4
    [] op = "readdir" -> 5
    [] op \in { "readAppManifest", "openArchive", "getEntry" } -> 6
    [] op = "createRelease" -> 7
    [] op = "upload" -> 8

\* stage k has completed successfully: run() holds its result
StageDone(k) ==
  CASE k = 1 -> releaseId # "" /\ pc # "start"
    [] k = 2 -> repoInfo # NoRepoInfo
    [] k = 3 -> releaseInfo # NoReleaseInfo
    [] k = 4 -> note # NoNote
    [] k = 5 -> assets # <<>>
    [] k = 6 -> appManifest # NoManifest
    [] k = 7 -> appRelease # NoRelease

Issued(op) == \E i \in 1..Len(calls) : calls[i].op = op
CountIssued(op) == Cardinality({ i \in 1..Len(calls) : calls[i].op = op })
NetworkOps ==
  { "getRepo", "getRelease", "renderMarkdown", "createRelease", "upload" }

StagesOrdered ==
  /\ \A i, j \in 1..Len(calls) :
        i < j => Stage(calls[i].op) <= Stage(calls[j].op)
  /\ \A i \in 1..Len(calls) :
        \A k \in 1..(Stage(calls[i].op) - 1) : StageDone(k)

\* C1: the operations are issued in the fixed stage order, an operation of
\* a stage only after every earlier stage has completed successfully, and
\* after a failure no further operation is ever issued.
C1_StageOrder ==
  /\ []StagesOrdered
  /\ [][pc = "failed" => calls' = calls]_vars

\* a run that went through all eight stages and uploaded two assets
C1_Witness ==
  /\ pc = "done"
  /\ Len(assets) = 2
  /\ \A op \in { "checkReleaseId", "getRepo", "getRelease", "renderMarkdown",
                 "readdir", "openArchive", "createRelease", "upload" } :
        Issued(op)

\* C3: with an empty release-id the run fails at once with the
\* missing-release-id error and no network call is ever issued.
C3_MissingReleaseId ==
  (releaseId = "" /\ pc # "start") =>
     /\ pc = "failed"
     /\ reports = <<[kind |-> "setFailed",
                     text |-> FailedText(ErrNoReleaseId)]>>
     /\ \A op \in NetworkOps : ~Issued(op)
     /\ ~Issued("readdir")
     /\ storeReleases = 0 /\ storeAssets = EmptyBag

C3_Witness == releaseId = "" /\ pc = "failed" /\ Len(dirFiles) = 2

\* the run has reported its outcome
Succeeded == reports = <<[kind |-> "info", text |-> CompletedText]>>
Failed == Len(reports) = 1 /\ reports[1].kind = "setFailed"

UploadIdx == DOMAIN uploads
RejectedIdx == { i \in UploadIdx : uploads[i].state = "rejected" }

OutcomeReportedOnce ==
  /\ Len(reports) <= 1
  /\ pc = "done" <=> Succeeded
  /\ pc = "failed" <=> Failed
  /\ pc \notin { "done", "failed" } => reports = <<>>
  /\ Succeeded =>
       /\ errors = <<>>
       /\ Len(uploads) = Len(assets) /\ assets # <<>>
       /\ \A i \in 1..Len(assets) :
            /\ uploads[i].state = "fulfilled"
            /\ BagIn(UploadForm(appRelease.name, assets[i]), storeAssets)
  /\ Failed =>
       /\ errors # <<>>
       /\ Contains(reports[1].text, Head(errors))
       /\ reports[1].text[1] = "[Failed]: "

\* C2: every run ends with exactly one report, the completion notice or
\* setFailed, never both and never twice; the completion notice only when
\* every listed asset has been uploaded successfully, setFailed with a reason
\* that contains the message of the first error that occurred.
C2_OneOutcome ==
  /\ []OutcomeReportedOnce
  /\ <>(Len(reports) = 1)
  /\ [][reports # <<>> => reports' = reports]_vars

\* a failed run in which two uploads were rejected, reported once
C2_Witness ==
  /\ Failed
  /\ Cardinality(RejectedIdx) = 2
  /\ Len(errors) = 2

\* the rejection the aggregate observed first: of the rejections it saw
\* while pending, the one of lowest index when they were already rejected
\* on creation, else the only one
FirstObserved ==
  CHOOSE i \in RejectedIdx :
     /\ ~uploads[i].late
     /\ \A j \in RejectedIdx : ~uploads[j].late => i <= j

\* C4: if any upload rejects the run fails, in every order of completion
\* and however many others succeed, and the reported reason is the message
\* of the rejection observed first.
C4_AnyRejectionFails ==
  RejectedIdx # {} =>
     /\ pc = "failed"
     /\ \E i \in RejectedIdx : ~uploads[i].late
     /\ reports = <<[kind |-> "setFailed",
                     text |-> FailedText(uploads[FirstObserved].error)]>>
     /\ Head(errors) = uploads[FirstObserved].error

\* the second upload was rejected after the first had succeeded, and with
\* a message of its own
C4_Witness ==
  /\ Len(uploads) = 2
  /\ uploads[1].state = "fulfilled" /\ ~uploads[1].late
  /\ uploads[2].state = "rejected"
  /\ reports = <<[kind |-> "setFailed",
                  text |-> FailedText(<<"Network Error">>)]>>

UploadCallsOf(f) ==
  { i \in 1..Len(calls) : calls[i].op = "upload" /\ calls[i].arg = f }

\* C5: on success every listed file (the manifest archive included) was
\* uploaded exactly once, each upload carried the name the create-release
\* call returned, and nothing outside the listing was uploaded.
C5_AllUploadedOnce ==
  pc = "done" =>
     /\ assets = dirFiles
     /\ appRelease.name \in ReleaseNames
     /\ \A k \in 1..Len(assets) :
          /\ Cardinality(UploadCallsOf(assets[k])) = 1
          /\ CopiesIn(UploadForm(appRelease.name, assets[k]), storeAssets) = 1
     /\ \A i \in 1..Len(calls) :
          calls[i].op = "upload" =>
             /\ calls[i].tag = appRelease.name
             /\ \E k \in 1..Len(assets) : assets[k] = calls[i].arg
     /\ BagCardinality(storeAssets) = Len(assets)
     /\ \E k \in 1..Len(assets) :
          manifestRead.targetFile = PathJoin(AssetsDir, assets[k])

C5_Witness ==
  /\ pc = "done"
  /\ Len(assets) = 2
  /\ manifestRead.targetFile = PathJoin(AssetsDir, assets[2])

UploadStepOk ==
  /\ DOMAIN uploads' = DOMAIN uploads \/ uploads = <<>>
  /\ \A i \in DOMAIN uploads :
        /\ uploads[i].state = "inflight" =>
             uploads'[i].state \in { "inflight", "fulfilled", "rejected" }
        /\ uploads[i].state # "inflight" => uploads'[i] = uploads[i]
  /\ Cardinality({ i \in DOMAIN uploads : uploads'[i] # uploads[i] }) <= 1
  /\ (pc # "failed" /\ pc' = "failed") =>
        \A i \in DOMAIN uploads' :
           uploads'[i].state = "inflight" \/ uploads'[i].state = "rejected"
           \/ (i \in DOMAIN uploads /\ uploads'[i] = uploads[i])

\* C6: a rejection cancels nothing: every upload in flight stays in flight
\* until its own response, also across the step that marks the run failed,
\* and no upload is ever aborted.
C6_NoCancellation ==
  /\ [](\A i \in UploadIdx :
          uploads[i].state \in { "inflight", "fulfilled", "rejected" })
  /\ [][UploadStepOk]_vars

\* the run is marked failed and a sibling upload completed on the store
\* afterwards
C6_Witness ==
  /\ pc = "failed"
  /\ \E i \in UploadIdx :
        /\ uploads[i].state = "fulfilled" /\ uploads[i].late
        /\ BagIn(uploads[i].form, storeAssets)

\* a file name with the extension .jar / .zip, spelled out
IsJarName(f) ==
  /\ Len(f) >= 4
  /\ f[Len(f) - 3] = "." /\ f[Len(f) - 2] = "j"
  /\ f[Len(f) - 1] = "a" /\ f[Len(f)] = "r"
IsZipName(f) ==
  /\ Len(f) >= 4
  /\ f[Len(f) - 3] = "." /\ f[Len(f) - 2] = "z"
  /\ f[Len(f) - 1] = "i" /\ f[Len(f)] = "p"

JarIdx == { i \in 1..Len(assets) : IsJarName(assets[i]) }
ZipIdx == { i \in 1..Len(assets) : IsZipName(assets[i]) }
MinOf(S) == CHOOSE i \in S : \A j \in S : i <= j

OpenCalls == { i \in 1..Len(calls) : calls[i].op = "openArchive" }
EntryCalls == { i \in 1..Len(calls) : calls[i].op = "getEntry" }

\* the archive at `index` of the listing, and only it, was opened and
\* looked up for `yaml`
OpenedOnly(index, yaml) ==
  /\ manifestRead.opened
  /\ manifestRead.targetFile = <<"build/libs", "/">> \o assets[index]
  /\ Cardinality(OpenCalls) = 1
  /\ \A i \in OpenCalls : calls[i].arg = manifestRead.targetFile
  /\ \A i \in EntryCalls : calls[i].arg = yaml
  /\ manifestRead.archive.readable =>
        Cardinality(EntryCalls) = 1 /\ manifestRead.yamlFileName = yaml

\* C7: a listing with a .jar has its first .jar opened and plugin.yaml
\* looked up, whether or not a .zip is present; a listing with no .jar and
\* a .zip has its first .zip opened and theme.yaml looked up.
C7_KindByExtension ==
  assets # <<>> =>
     /\ JarIdx # {} => OpenedOnly(MinOf(JarIdx), "plugin.yaml")
     /\ (JarIdx = {} /\ ZipIdx # {}) => OpenedOnly(MinOf(ZipIdx), "theme.yaml")

\* a .zip is listed before a .jar, and the .jar is the one read
C7_Witness ==
  /\ Len(assets) = 2
  /\ IsZipName(assets[1]) /\ IsJarName(assets[2])
  /\ manifestRead.yamlFileName = "plugin.yaml"
  /\ appManifest # NoManifest

ExtractionFailed == assets # <<>> /\ appManifest = NoManifest
NoReleaseCreated ==
  /\ storeReleases = 0
  /\ ~Issued("createRelease") /\ ~Issued("upload")
  /\ appRelease = NoRelease

\* C8 as stated: a listing with both a .jar and a .zip, or with neither,
\* makes manifest extraction fail and no release is created.
C8_Original ==
  (assets # <<>> /\ ((JarIdx # {} /\ ZipIdx # {})
                     \/ (JarIdx = {} /\ ZipIdx = {}))) =>
     ExtractionFailed /\ NoReleaseCreated

\* C8 amended: extraction fails for want of a package exactly when the
\* listing has neither a .jar nor a .zip, and then no release is created;
\* a listing with both is not rejected for that.
C8_AtLeastOnePackage ==
  assets # <<>> =>
     /\ (JarIdx = {} /\ ZipIdx = {}) <=>
           (pc = "failed" /\ errors = <<ErrNoPackage>>)
     /\ (JarIdx = {} /\ ZipIdx = {}) => NoReleaseCreated
     /\ (JarIdx # {} /\ ZipIdx # {}) =>
           /\ manifestRead.opened
           /\ appManifest = NoManifest =>
                reports[1].text[2] = "Failed to read manifest file: "

\* a listing with a .jar and a .zip for which a release was created
C8_Witness ==
  /\ JarIdx # {} /\ ZipIdx # {}
  /\ storeReleases = 1
  /\ Issued("createRelease")

\* C9: a listing with neither a .jar nor a .zip fails with the
\* no-package error before any archive is opened, and neither a
\* create-release nor an upload request is issued.
C9_NoPackage ==
  (assets # <<>> /\ JarIdx = {} /\ ZipIdx = {}) =>
     /\ reports = <<[kind |-> "setFailed",
                     text |-> <<"[Failed]: ",
                       "No jar or zip file found in assets directory">>]>>
     /\ ~manifestRead.opened
     /\ OpenCalls = {} /\ EntryCalls = {}
     /\ ~Issued("createRelease") /\ ~Issued("upload")
     /\ storeReleases = 0 /\ storeAssets = EmptyBag

\* the listing holds only a file whose name ends in "jar" without the dot
C9_Witness ==
  /\ assets = <<<<"n", "o", "j", "a", "r">>>>
  /\ pc = "failed"

\* the manifest entry the opened package is expected to contain
ExpectedYaml ==
  IF \E k \in JarIdx :
        manifestRead.targetFile = <<"build/libs", "/">> \o assets[k]
  THEN "plugin.yaml" ELSE "theme.yaml"

ArchiveUnusable ==
  LET a == manifestRead.archive
  IN  \/ ~a.readable
      \/ ExpectedYaml \notin a.entries
      \/ a.doc.kind = "malformed"
      \/ a.doc.kind # "specMap"
      \/ a.doc.requires = <<"undefined">>
      \/ a.doc.version = <<"undefined">>

\* C10 as stated: extraction fails, and no release is created, whenever the
\* archive cannot be opened, the expected entry is absent (the message names
\* it), the YAML is malformed or spec.requires or spec.version is absent;
\* when it succeeds both fields are strings taken from the manifest.
C10_Original ==
  manifestRead.opened =>
     /\ ArchiveUnusable =>
          /\ ExtractionFailed /\ NoReleaseCreated
          /\ pc = "failed"
          /\ reports[1].text[2] = "Failed to read manifest file: "
          /\ (manifestRead.archive.readable
              /\ ExpectedYaml \notin manifestRead.archive.entries) =>
                Contains(reports[1].text, <<ExpectedYaml>>)
     /\ ~ExtractionFailed =>
          /\ appManifest.requires[1] = "string"
          /\ appManifest.version[1] = "string"
          /\ appManifest.requires = manifestRead.archive.doc.requires
          /\ appManifest.version = manifestRead.archive.doc.version

\* the text the render request carried
RenderedText ==
  LET i == CHOOSE i \in 1..Len(calls) : calls[i].op = "renderMarkdown"
  IN  calls[i].arg

BodyIsEmpty == releaseInfo.body = <<"null">> \/ releaseInfo.body = <<"string", <<>>>>

ExpectedBodyPart ==
  IF BodyIsEmpty THEN <<>> ELSE releaseInfo.body[2]
ExpectedSeparator ==
  IF BodyIsEmpty THEN <<>> ELSE <<"\n\n---">>
ExpectedAttribution ==
  IF repoInfo.private THEN <<>>
  ELSE <<"\n\n*Generated from [", releaseInfo.tag_name, "](",
         releaseInfo.html_url, ")*">>

\* C11: the markdown is the body (empty if null), then the separator iff
\* the body is non-empty, then the attribution line iff the repository is
\* not private, whatever the body; an empty body in a private repository
\* gives the empty text.
C11_ReleaseNote ==
  Issued("renderMarkdown") =>
     /\ RenderedText =
          ExpectedBodyPart \o ExpectedSeparator \o ExpectedAttribution
     /\ (BodyIsEmpty /\ repoInfo.private) => RenderedText = <<>>
     /\ note # NoNote => note.markdown = RenderedText

\* an empty body in a public repository: the attribution line alone
C11_Witness ==
  /\ Issued("renderMarkdown")
  /\ releaseInfo.body = <<"string", <<>>>>
  /\ ~repoInfo.private
  /\ note.markdown = <<"\n\n*Generated from [", "v1.0", "](", "https://x", ")*">>

CreateCalls == { i \in 1..Len(calls) : calls[i].op = "createRelease" }

\* C12: the one create-release request has draft false, requires and
\* version as extracted from the manifest, preRelease and displayName of
\* the fetched release, notes.raw the assembled markdown, notes.html the
\* rendering of that same markdown, and rawType "MARKDOWN".
C12_CreateRequest ==
  /\ Cardinality(CreateCalls) <= 1
  /\ \A i \in CreateCalls :
       LET req == calls[i].arg
       IN  /\ req.draft = FALSE
           /\ req.requires = appManifest.requires
           /\ req.version = appManifest.version
           /\ manifestRead.archive.doc.kind = "specMap" =>
                /\ req.requires = manifestRead.archive.doc.requires
                /\ req.version = manifestRead.archive.doc.version
           /\ req.preRelease = releaseInfo.prerelease
           /\ req.displayName = releaseInfo.name
           /\ req.raw = RenderedText
           /\ req.raw = ExpectedBodyPart \o ExpectedSeparator
                        \o ExpectedAttribution
           /\ req.html = <<"<div>">> \o RenderedText \o <<"</div>">>
           /\ req.html = note.html
           /\ req.rawType = "MARKDOWN"

\* the request of a prerelease with manifest values 2.0.0 / 1.2.3
C12_Witness ==
  /\ Cardinality(CreateCalls) = 1
  /\ \E i \in CreateCalls :
        /\ calls[i].arg.preRelease = TRUE
        /\ calls[i].arg.requires = <<"string", "2.0.0">>
        /\ calls[i].arg.version = <<"string", "1.2.3">>
        /\ calls[i].arg.draft = FALSE

\* the step rejects a network call: a transport error joins the errors
NetworkCallFails ==
  /\ Len(errors') = Len(errors) + 1
  /\ errors'[Len(errors')] \in
       { <<"Request failed with status code 500">>, <<"Network Error">> }

NoRetryStep ==
  /\ NetworkCallFails => (calls' = calls /\ pc' = "failed")
  /\ \A i \in 1..Len(calls) : i <= Len(calls') /\ calls'[i] = calls[i]

\* C13: each of get repository, get release, render markdown and create
\* release is issued at most once, an upload at most once per listed asset;
\* a failed call is never issued again and leaves the run failed.
C13_NoRetries ==
  /\ [](/\ \A op \in { "getRepo", "getRelease", "renderMarkdown",
                       "createRelease" } : CountIssued(op) <= 1
        /\ \A k \in 1..Len(assets) :
              Cardinality(UploadCallsOf(assets[k])) <= 1
        /\ CountIssued("upload") <= Len(assets)
        /\ \A i \in UploadIdx :
              uploads[i].state = "rejected" =>
                 /\ pc = "failed"
                 /\ Cardinality(UploadCallsOf(assets[i])) <= 1)
  /\ [][NoRetryStep]_vars

\* one of two uploads was rejected by the store and was not sent again
C13_Witness ==
  /\ pc = "failed"
  /\ Len(assets) = 2
  /\ CountIssued("upload") = 2
  /\ \E i \in UploadIdx :
        /\ uploads[i].state = "rejected"
        /\ uploads[i].error = <<"Network Error">>

\* the store gains at most the form of one upload that was in flight, and
\* loses nothing
StoreOnlyGrowsByInflight ==
  /\ storeReleases' >= storeReleases
  /\ \/ storeAssets' = storeAssets
     \/ \E i \in DOMAIN uploads :
           /\ uploads[i].state = "inflight"
           /\ uploads'[i].state = "fulfilled"
           /\ storeAssets' = storeAssets (+) SetToBag({ uploads[i].form })

NoRollbackStep ==
  /\ StoreOnlyGrowsByInflight
  /\ (pc = "awaitUploads" /\ pc' = "failed") =>
        /\ storeReleases' = storeReleases
        /\ storeAssets' = storeAssets
        /\ calls' = calls
  /\ pc = "failed" =>
        /\ pc' = "failed"
        /\ storeReleases' = storeReleases
        /\ calls' = calls

\* C14: a failure in the upload stage undoes nothing: the release record
\* and the assets already stored stay, no request is issued after the
\* failure, and the store changes afterwards only by uploads that were
\* already in flight completing.
C14_NoRollback ==
  /\ []((pc = "failed" /\ uploads # <<>>) =>
           /\ storeReleases = 1
           /\ \A i \in UploadIdx :
                 uploads[i].state = "fulfilled" =>
                    CopiesIn(uploads[i].form, storeAssets) = 1)
  /\ [][NoRollbackStep]_vars

\* the first upload is stored, the second was rejected and failed the run
C14_Witness ==
  /\ pc = "failed"
  /\ Len(uploads) = 2
  /\ uploads[1].state = "fulfilled" /\ ~uploads[1].late
  /\ uploads[2].state = "rejected" /\ ~uploads[2].late
  /\ storeReleases = 1
  /\ BagCardinality(storeAssets) = 1

\* the asset is still in the directory (which no longer changes once the
\* uploads have started)
StillThere(f) == \E j \in 1..Len(dirFiles) : dirFiles[j] = f
VanishedIdx == { k \in 1..Len(assets) : ~StillThere(assets[k]) }

\* C15: in the upload stage an asset that has vanished since the listing
\* gets no upload request and fails the run with the asset-missing error,
\* while the request of every listed asset that still exists is issued.
C15_ExistenceRecheck ==
  Issued("upload") \/ uploads # <<>> =>
     /\ Len(uploads) = Len(assets)
     /\ \A k \in 1..Len(assets) :
          IF StillThere(assets[k])
          THEN /\ Cardinality(UploadCallsOf(assets[k])) = 1
               /\ uploads[k].state # "rejected"
                    => uploads[k].error = <<>>
               /\ uploads[k].error # <<"Asset file does not exist: ",
                                       "build/libs", "/">> \o assets[k]
          ELSE /\ UploadCallsOf(assets[k]) = {}
               /\ uploads[k].state = "rejected"
               /\ uploads[k].error = <<"Asset file does not exist: ",
                                       "build/libs", "/">> \o assets[k]
     /\ VanishedIdx # {} =>
          /\ pc = "failed"
          /\ reports = <<[kind |-> "setFailed",
                          text |-> <<"[Failed]: ",
                                     "Asset file does not exist: ",
                                     "build/libs", "/">>
                                   \o assets[MinOf(VanishedIdx)]]>>

\* the first listed asset has vanished, the second was uploaded all the same
C15_Witness ==
  /\ Len(assets) = 2
  /\ VanishedIdx = {1}
  /\ uploads # <<>>
  /\ Cardinality(UploadCallsOf(assets[2])) = 1
  /\ uploads[2].state = "fulfilled"

ManifestNotFoundText == <<"App manifest not found">>

\* C16: createAppRelease never sees an absent manifest: readAppManifest
\* returns an object or throws, so "App manifest not found" is never thrown
\* or reported, and a create-release POST is only issued with a manifest
\* extracted from an archive opened in the same run.
C16_ManifestNeverAbsent ==
  /\ \A i \in 1..Len(errors) : errors[i] # ManifestNotFoundText
  /\ \A i \in 1..Len(reports) :
        ~Contains(reports[i].text, ManifestNotFoundText)
  /\ (assets # <<>> /\ pc # "failed") =>
        /\ appManifest # NoManifest
        /\ Issued("createRelease")
  /\ Issued("createRelease") =>
        /\ appManifest # NoManifest
        /\ manifestRead.opened /\ manifestRead.archive.readable
        /\ manifestRead.yamlFileName \in manifestRead.archive.entries
        /\ Cardinality(OpenCalls) = 1
        /\ \A i \in CreateCalls :
              /\ \E j \in OpenCalls : j < i
              /\ calls[i].arg.requires = appManifest.requires
              /\ calls[i].arg.version = appManifest.version

\* the create request went out with a manifest object whose two fields are
\* undefined: an object all the same
C16_Witness ==
  /\ Issued("createRelease")
  /\ appManifest = [requires |-> <<"undefined">>, version |-> <<"undefined">>]
  /\ pc = "awaitCreate"

ListingErrors ==
  { <<"Assets directory does not exist: ", "build/libs">>,
    <<"Assets directory is empty: ", "build/libs">> }

\* the run has got past the rendering of the release note
PastRender ==
  pc \notin { "start", "awaitRepo", "awaitRelease", "awaitRender" }
  /\ note # NoNote

\* the listing is made in the turn that receives the rendered note
ListingStep ==
  (pc = "awaitRender" /\ note' # NoNote
   /\ (~dirExists \/ dirFiles = <<>>)) =>
     /\ pc' = "failed"
     /\ reports' = <<[kind |-> "setFailed",
                      text |-> <<"[Failed]: ">> \o
                        (IF ~dirExists
                         THEN <<"Assets directory does not exist: ",
                                "build/libs">>
                         ELSE <<"Assets directory is empty: ",
                                "build/libs">>)]>>
     /\ calls' = Append(calls, [op |-> "readdir", arg |-> <<>>,
                                tag |-> <<>>])

\* C17: with the assets directory missing or empty the run fails at the
\* listing: the repository fetch, the release fetch and the render have
\* been issued, no archive is opened and no create-release or upload
\* request is ever issued.
C17_NoAssetsDirectory ==
  /\ []((PastRender /\ assets = <<>>) =>
          /\ ~dirExists \/ dirFiles = <<>>
          /\ pc = "failed"
          /\ Len(errors) = 1 /\ errors[1] \in ListingErrors
          /\ Issued("getRepo") /\ Issued("getRelease")
          /\ Issued("renderMarkdown")
          /\ calls[Len(calls)].op = "readdir"
          /\ OpenCalls = {} /\ ~manifestRead.opened
          /\ ~Issued("readAppManifest")
          /\ ~Issued("createRelease") /\ ~Issued("upload")
          /\ storeReleases = 0 /\ storeAssets = EmptyBag)
  /\ [](~dirExists => (~Issued("createRelease") /\ OpenCalls = {}))
  /\ [][ListingStep]_vars

\* the directory exists but is empty, and the run has failed at the listing
C17_Witness ==
  /\ dirExists /\ dirFiles = <<>>
  /\ PastRender
  /\ reports = <<[kind |-> "setFailed",
                  text |-> <<"[Failed]: ", "Assets directory is empty: ",
                             "build/libs">>]>>

====
